---- MODULE Spec2Model ----
(***************************************************************************)
(* A model of the R-way trie of package trie (src/trie/tree.go).           *)
(*                                                                         *)
(* Go pointers are modelled as identifiers into two stores: `nodes` holds  *)
(* the Node structs, `maps` holds the children maps (a Go map is a         *)
(* reference, so two Node structs may share one map).  Keys are byte       *)
(* strings (sequences of 0..255); runes are integers.                      *)
(*                                                                         *)
(* The mutating operations, ReplaceOrInsert and Delete, are the actions.   *)
(* Each is a function of the heap (replaceOrInsert, delete) that the       *)
(* action applies to the state.  The reads (Find, HasKeysWithPrefix,       *)
(* PrefixSearch, Keys) change no state and are operators on the heap.  A   *)
(* property of an operation is stated over every reachable state and every *)
(* argument: the state is the one before the call, and the function gives  *)
(* the heap, the size and the returned pointer after it.                   *)
(***************************************************************************)
EXTENDS Integers, Sequences, FiniteSets, TLC

VARIABLES nodes, maps, size, crashed

vars == <<nodes, maps, size, crashed>>

(***************************************************************************)
(* Bounds of the model.                                                    *)
(***************************************************************************)
NumValues == 2
MaxStop == 2

(***************************************************************************)
(* Values of the model.                                                    *)
(***************************************************************************)
Nil == 0
NoValue == 0
Values == 1..NumValues
RuneError == 65533
ReplacementChar == <<239, 191, 189>>

\* The byte strings the caller passes: "", "a", "aa", "a\xc3\xa9", "\xc3\xa9"
\* (U+00E9 in two bytes), "a\xa9" and "\xc3" (not UTF-8), and "\xef\xbf\xbd"
\* (U+FFFD in three bytes).
KeyUniverse ==
  {<<>>, <<97>>, <<97, 97>>, <<97, 195, 169>>, <<195, 169>>, <<97, 169>>,
   <<195>>, ReplacementChar}

(***************************************************************************)
(* unicode/utf8: DecodeRune, RuneLen, EncodeRune.                          *)
(***************************************************************************)
Invalid == [size |-> 0, lo |-> 0, hi |-> 0]

first(b) ==
  IF b < 128 THEN [size |-> 1, lo |-> 0, hi |-> 0]
  ELSE IF b < 194 THEN Invalid
  ELSE IF b < 224 THEN [size |-> 2, lo |-> 128, hi |-> 191]
  ELSE IF b = 224 THEN [size |-> 3, lo |-> 160, hi |-> 191]
  ELSE IF b < 237 THEN [size |-> 3, lo |-> 128, hi |-> 191]
  ELSE IF b = 237 THEN [size |-> 3, lo |-> 128, hi |-> 159]
  ELSE IF b < 240 THEN [size |-> 3, lo |-> 128, hi |-> 191]
  ELSE IF b = 240 THEN [size |-> 4, lo |-> 144, hi |-> 191]
  ELSE IF b < 244 THEN [size |-> 4, lo |-> 128, hi |-> 191]
  ELSE IF b = 244 THEN [size |-> 4, lo |-> 128, hi |-> 143]
  ELSE Invalid

Continuation(b) == 128 <= b /\ b <= 191

\* <<rune, width>> of the first encoding in p
DecodeRune(p) ==
  IF Len(p) < 1 THEN <<RuneError, 0>>
  ELSE LET x == first(p[1]) IN
    IF x.size = 1 THEN <<p[1], 1>>
    ELSE IF x.size = 0 THEN <<RuneError, 1>>
    ELSE IF Len(p) < x.size THEN <<RuneError, 1>>
    ELSE IF p[2] < x.lo \/ x.hi < p[2] THEN <<RuneError, 1>>
    ELSE IF x.size = 2 THEN <<(p[1] % 32) * 64 + (p[2] % 64), 2>>
    ELSE IF ~Continuation(p[3]) THEN <<RuneError, 1>>
    ELSE IF x.size = 3
      THEN <<(p[1] % 16) * 4096 + (p[2] % 64) * 64 + (p[3] % 64), 3>>
    ELSE IF ~Continuation(p[4]) THEN <<RuneError, 1>>
    ELSE <<(p[1] % 8) * 262144 + (p[2] % 64) * 4096 + (p[3] % 64) * 64
             + (p[4] % 64), 4>>

Surrogate(r) == 55296 <= r /\ r <= 57343

RuneLen(r) ==
  IF r < 0 THEN -1
  ELSE IF r <= 127 THEN 1
  ELSE IF r <= 2047 THEN 2
  ELSE IF Surrogate(r) THEN -1
  ELSE IF r <= 65535 THEN 3
  ELSE IF r <= 1114111 THEN 4
  ELSE -1

EncodeRune(r) ==
  IF 0 <= r /\ r <= 127 THEN <<r>>
  ELSE IF 0 <= r /\ r <= 2047 THEN <<192 + (r \div 64), 128 + (r % 64)>>
  ELSE IF r < 0 \/ r > 1114111 \/ Surrogate(r) THEN ReplacementChar
  ELSE IF r <= 65535
    THEN <<224 + (r \div 4096), 128 + ((r \div 64) % 64), 128 + (r % 64)>>
  ELSE <<240 + (r \div 262144), 128 + ((r \div 4096) % 64),
         128 + ((r \div 64) % 64), 128 + (r % 64)>>

(***************************************************************************)
(* The key codec of the trie.                                              *)
(***************************************************************************)
RECURSIVE parseFrom(_, _, _)
parseFrom(str, offset, keyRune) ==
  IF offset >= Len(str) THEN keyRune
  ELSE LET d == DecodeRune(SubSeq(str, offset + 1, Len(str))) IN
    IF d[1] = RuneError THEN <<>>
    ELSE parseFrom(str, offset + d[2], Append(keyRune, d[1]))

\* a nil slice and an empty slice are both the empty sequence
parseTextToRunes(str) == IF Len(str) = 0 THEN <<>> ELSE parseFrom(str, 0, <<>>)

RECURSIVE runesLen(_)
runesLen(runes) ==
  IF runes = <<>> THEN 0 ELSE RuneLen(Head(runes)) + runesLen(Tail(runes))

RECURSIVE encodeAll(_)
encodeAll(runes) ==
  IF runes = <<>> THEN <<>>
  ELSE EncodeRune(Head(runes)) \o encodeAll(Tail(runes))

\* a buffer of runesLen bytes, filled rune by rune
parseRunesToText(runes) == SubSeq(encodeAll(runes), 1, runesLen(runes))

(***************************************************************************)
(* The stores.  A heap h is a record [nodes, maps]:                        *)
(*   h.nodes[n] = [code, term, depth, value, parent, children]  (Node)     *)
(*   h.maps[m]  = a function from runes to node identifiers                *)
(* The root is always node 1.                                              *)
(***************************************************************************)
root == 1
EmptyMap == [r \in {} |-> Nil]

Heap == [nodes |-> nodes, maps |-> maps]

Min(S) == CHOOSE x \in S : \A y \in S : x <= y

FreshNode(h) == Min((1..(Cardinality(DOMAIN h.nodes) + 1)) \ DOMAIN h.nodes)
FreshMap(h) == Min((1..(Cardinality(DOMAIN h.maps) + 1)) \ DOMAIN h.maps)

Children(h, n) == h.maps[h.nodes[n].children]
Parent(h, n) == h.nodes[n].parent

NewTrie ==
  [nodes |-> (root :> [code |-> 0, term |-> FALSE, depth |-> 0,
                       value |-> NoValue, parent |-> Nil, children |-> 1]),
   maps |-> (1 :> EmptyMap)]

\* n.children[code] = node
SetChild(h, n, code, node) ==
  [h EXCEPT !.maps[h.nodes[n].children] = (code :> node) @@ @]

\* [h, node]: the heap with the new child of n, and the child
NewChildNode(h, n, code, value, term) ==
  LET node == FreshNode(h)
      m == FreshMap(h)
      h1 == [nodes |-> (node :> [code |-> code, term |-> term,
                                 depth |-> h.nodes[n].depth + 1,
                                 value |-> value, parent |-> n,
                                 children |-> m]) @@ h.nodes,
             maps |-> (m :> EmptyMap) @@ h.maps]
  IN [h |-> SetChild(h1, n, code, node), node |-> node]

ReplaceOrInsertChildNode(h, n, node) == SetChild(h, n, h.nodes[node].code, node)

\* delete(n.children, r)
RemoveChild(h, n, r) ==
  LET m == h.nodes[n].children
  IN [h EXCEPT !.maps[m] = [c \in (DOMAIN h.maps[m]) \ {r} |-> h.maps[m][c]]]

RECURSIVE findNode(_, _, _)
findNode(h, node, key) ==
  IF node = Nil THEN Nil
  ELSE IF Len(key) = 0 THEN node
  ELSE IF Head(key) \notin DOMAIN Children(h, node) THEN Nil
  ELSE findNode(h, Children(h, node)[Head(key)], Tail(key))

Max(S) == CHOOSE x \in S : \A y \in S : y <= x

\* SortByRune with Less reversed (a[i] > a[j])
RECURSIVE SortByRuneReversed(_)
SortByRuneReversed(S) ==
  IF S = {} THEN <<>> ELSE <<Max(S)>> \o SortByRuneReversed(S \ {Max(S)})

\* sort.Sort(ByRune(bs)): the runes of S in ascending order
RECURSIVE SortByRune(_)
SortByRune(S) ==
  IF S = {} THEN <<>> ELSE <<Min(S)>> \o SortByRune(S \ {Min(S)})

(***************************************************************************)
(* Pointer identity.  Only the shape of the pointer graph is observable,   *)
(* so after each operation the structs that can still be reached from the  *)
(* root (the rest is garbage: the trie takes no node back from its caller) *)
(* are renumbered in the order of a fixed walk: a node, its parent, then   *)
(* its children by ascending rune.                                         *)
(***************************************************************************)
InSeq(x, s) == \E i \in 1..Len(s) : s[i] = x

RECURSIVE Walk(_, _, _)
RECURSIVE WalkAll(_, _, _)
Walk(h, n, order) ==
  IF n = Nil \/ InSeq(n, order) THEN order
  ELSE LET o1 == Walk(h, Parent(h, n), Append(order, n))
           kids == Children(h, n)
           runes == SortByRune(DOMAIN kids)
       IN WalkAll(h, [i \in 1..Len(runes) |-> kids[runes[i]]], o1)
WalkAll(h, ns, order) ==
  IF ns = <<>> THEN order ELSE WalkAll(h, Tail(ns), Walk(h, Head(ns), order))

Index(x, s) == IF x = Nil THEN Nil ELSE CHOOSE i \in 1..Len(s) : s[i] = x

\* the reachable part of h, renumbered
Canon(h) ==
  LET order == Walk(h, root, <<>>)
      map(i) == h.nodes[order[i]].children
      \* a map is named after the first node of the walk that holds it
      owners == {i \in 1..Len(order) : \A k \in 1..(i - 1) : map(k) # map(i)}
      mapName(m) == CHOOSE i \in owners : map(i) = m
  IN [nodes |-> [i \in 1..Len(order) |->
                   [h.nodes[order[i]] EXCEPT !.parent = Index(@, order),
                                             !.children = mapName(@)]],
      maps |-> [j \in owners |->
                  [r \in DOMAIN h.maps[map(j)] |->
                     Index(h.maps[map(j)][r], order)]]]

(***************************************************************************)
(* Trie.ReplaceOrInsert                                                    *)
(***************************************************************************)
\* the loop over the key: [ok, h, node, pre]; ok is FALSE at the early return
RECURSIVE insertWalk(_, _, _, _, _)
insertWalk(h, key, offset, node, pre) ==
  IF offset >= Len(key) THEN [ok |-> TRUE, h |-> h, node |-> node, pre |-> pre]
  ELSE LET d == DecodeRune(SubSeq(key, offset + 1, Len(key)))
           e == d[1]
       IN IF e = RuneError
            THEN [ok |-> FALSE, h |-> h, node |-> node, pre |-> pre]
          ELSE IF e \in DOMAIN Children(h, node)
            THEN insertWalk(h, key, offset + d[2],
                            Children(h, node)[e], Children(h, node)[e])
          ELSE LET c == NewChildNode(h, node, e, NoValue, FALSE)
               IN insertWalk(c.h, key, offset + d[2], c.node, Nil)

\* the replacement of pre by a new struct that shares pre's children map
replaceNode(h, pre, value) ==
  LET node == FreshNode(h)
      h1 == [h EXCEPT !.nodes = (node :> [code |-> h.nodes[pre].code,
                                          term |-> h.nodes[pre].term,
                                          value |-> value,
                                          parent |-> h.nodes[pre].parent,
                                          children |-> h.nodes[pre].children,
                                          depth |-> h.nodes[pre].depth])
                                   @@ h.nodes]
  IN ReplaceOrInsertChildNode(h1, h1.nodes[node].parent, node)

\* [h, size, ret]
replaceOrInsert(h, sz, key, value) ==
  IF Len(key) = 0 THEN [h |-> h, size |-> sz, ret |-> Nil]
  ELSE LET w == insertWalk(h, key, 0, root, Nil) IN
    IF ~w.ok THEN [h |-> w.h, size |-> sz, ret |-> Nil]
    ELSE IF w.pre = Nil
      THEN [h |-> [w.h EXCEPT !.nodes[w.node].value = value,
                              !.nodes[w.node].term = TRUE],
            size |-> sz + 1, ret |-> w.pre]
    ELSE [h |-> replaceNode(w.h, w.pre, value), size |-> sz, ret |-> w.pre]

(***************************************************************************)
(* Trie.Delete                                                             *)
(***************************************************************************)
\* prune without the test of n.term: a terminating ancestor left without
\* children is detached too
RECURSIVE pruneTerminating(_, _)
pruneTerminating(h, n) ==
  IF n = Nil THEN h
  ELSE IF DOMAIN Children(h, n) # {} THEN h
  ELSE pruneTerminating(IF Parent(h, n) # Nil
                          THEN RemoveChild(h, Parent(h, n), h.nodes[n].code)
                          ELSE h,
                        Parent(h, n))

\* the loop over the ancestors of the detached node, from n upwards
RECURSIVE prune(_, _)
prune(h, n) ==
  IF n = Nil THEN h
  ELSE IF h.nodes[n].term THEN h
  ELSE IF DOMAIN Children(h, n) # {} THEN h
  ELSE prune(IF Parent(h, n) # Nil
               THEN RemoveChild(h, Parent(h, n), h.nodes[n].code)
               ELSE h,
             Parent(h, n))

\* the removal of a terminating node
remove(h, node) ==
  IF DOMAIN Children(h, node) # {}
    THEN [h EXCEPT !.nodes[node].term = FALSE]
  ELSE IF Parent(h, node) # Nil
    THEN prune(RemoveChild(h, Parent(h, node), h.nodes[node].code),
               Parent(h, node))
  ELSE h

\* [h, size, ret, panic]; node.term on a nil node is a nil pointer dereference
delete(h, sz, key) ==
  LET keyRune == parseTextToRunes(key)
      node == findNode(h, root, keyRune)
  IN IF node = Nil
       THEN [h |-> h, size |-> sz, ret |-> Nil, panic |-> TRUE]
     ELSE IF h.nodes[node].term
       THEN [h |-> remove(h, node), size |-> sz - 1, ret |-> node,
             panic |-> FALSE]
     ELSE [h |-> h, size |-> sz, ret |-> Nil, panic |-> FALSE]

(***************************************************************************)
(* The reads: Find, HasKeysWithPrefix, PrefixSearch, Keys, Size.           *)
(***************************************************************************)
NotFound == [found |-> FALSE, value |-> NoValue]

\* the copy Find returns, and its second result
Find(h, key) ==
  LET node == findNode(h, root, parseTextToRunes(key))
  IN IF node = Nil THEN NotFound
     ELSE IF ~h.nodes[node].term THEN NotFound
     ELSE [found |-> TRUE, value |-> h.nodes[node].value]

HasKeysWithPrefix(h, key) == findNode(h, root, parseTextToRunes(key)) # Nil

\* A visitor that returns false from its stop-th call on (never, if stop = 0).
IterResult(stop, call) == stop = 0 \/ call < stop

\* calls: the visitor's calls so far, each <<key, value>>; the result is the
\* calls after the traversal of node.  append(prefix, n.code) may write into
\* prefix's backing array, but only beyond len(prefix), and the callee reads
\* the slot before a sibling overwrites it: prefix is a value here.
RECURSIVE preTraverse(_, _, _, _, _)
RECURSIVE traverseChildren(_, _, _, _, _, _)
preTraverse(h, node, prefix, stop, calls) ==
  IF node = Nil THEN calls
  ELSE LET visited == IF h.nodes[node].term
                        THEN Append(calls, <<parseRunesToText(prefix),
                                             h.nodes[node].value>>)
                        ELSE calls
       IN IF h.nodes[node].term /\ ~IterResult(stop, Len(visited))
            THEN visited
          ELSE IF DOMAIN Children(h, node) = {} THEN visited
          ELSE traverseChildren(h, node, SortByRune(DOMAIN Children(h, node)),
                                prefix, stop, visited)
traverseChildren(h, node, bs, prefix, stop, calls) ==
  IF bs = <<>> THEN calls
  ELSE LET n == Children(h, node)[Head(bs)]
       IN traverseChildren(h, node, Tail(bs), prefix, stop,
            preTraverse(h, n, Append(prefix, h.nodes[n].code), stop, calls))

\* the sequence of the visitor's calls
PrefixSearch(h, pre, stop) ==
  LET preRune == parseTextToRunes(pre)
      node == findNode(h, root, preRune)
  IN IF node = Nil THEN <<>> ELSE preTraverse(h, node, preRune, stop, <<>>)

Keys(h) ==
  LET calls == PrefixSearch(h, <<>>, 0)
  IN [i \in 1..Len(calls) |-> calls[i][1]]

(***************************************************************************)
(* The state machine: a caller that applies the operations one at a time.  *)
(* The reads above change nothing; a panic ends the program.               *)
(***************************************************************************)
Init ==
  /\ nodes = NewTrie.nodes
  /\ maps = NewTrie.maps
  /\ size = 0
  /\ crashed = FALSE

ReplaceOrInsert(key, value) ==
  /\ ~crashed
  /\ LET r == replaceOrInsert(Heap, size, key, value)
         c == Canon(r.h)
     IN /\ nodes' = c.nodes
        /\ maps' = c.maps
        /\ size' = r.size
  /\ UNCHANGED crashed

Delete(key) ==
  /\ ~crashed
  /\ LET r == delete(Heap, size, key)
         c == Canon(r.h)
     IN /\ nodes' = c.nodes
        /\ maps' = c.maps
        /\ size' = r.size
        /\ crashed' = r.panic

Next ==
  \/ \E key \in KeyUniverse, value \in Values : ReplaceOrInsert(key, value)
  \/ \E key \in KeyUniverse : Delete(key)

Spec == Init /\ [][Next]_vars

\* the keys the codec accepts: not empty, and decoded without an error
ValidKey(k) == k # <<>> /\ parseTextToRunes(k) # <<>>
ValidKeys == {k \in KeyUniverse : ValidKey(k)}

\* a caller that passes valid non-empty keys only
NextValid ==
  \/ \E key \in ValidKeys, value \in Values : ReplaceOrInsert(key, value)
  \/ \E key \in ValidKeys : Delete(key)

SpecValid == Init /\ [][NextValid]_vars

(***************************************************************************)
(* What the claims speak of.                                               *)
(***************************************************************************)
\* the prefixes the codec accepts; the empty prefix is one
Decodable(p) == p = <<>> \/ parseTextToRunes(p) # <<>>

Stored(h, k) == Find(h, k).found

IsPrefix(p, k) == Len(p) <= Len(k) /\ SubSeq(k, 1, Len(p)) = p

\* a before b in the lexicographic order of code-point sequences
LexLess(a, b) ==
  \E i \in 1..(Len(b)) :
    /\ \A j \in 1..(i - 1) : j <= Len(a) /\ a[j] = b[j]
    /\ (i > Len(a) \/ (i <= Len(a) /\ a[i] < b[i]))

\* the nodes of the tree: those reached from the root through children maps
RECURSIVE Below(_, _)
Below(h, n) ==
  {n} \cup UNION {Below(h, Children(h, n)[r]) : r \in DOMAIN Children(h, n)}
TreeNodes(h) == Below(h, root)

\* the tree as the set of its paths, each with the node's flag and value
RECURSIVE ShapeFrom(_, _, _)
ShapeFrom(h, n, path) ==
  {<<path, h.nodes[n].term, h.nodes[n].value>>}
    \cup UNION {ShapeFrom(h, Children(h, n)[r], Append(path, r)) :
                  r \in DOMAIN Children(h, n)}
Shape(h) == ShapeFrom(h, root, <<>>)

\* some node of the tree was put in place of another by ReplaceOrInsert: a
\* child's parent pointer still names the struct that was replaced
Replaced(h) ==
  \E n \in TreeNodes(h) : \E r \in DOMAIN Children(h, n) :
    Parent(h, Children(h, n)[r]) # n

(***************************************************************************)
(* C1. Round trip: for every valid non-empty key k and value v, in every   *)
(* reachable state, Find(k) right after ReplaceOrInsert(k, v) reports      *)
(* found with value v.                                                     *)
(***************************************************************************)
C1_RoundTrip ==
  \A k \in ValidKeys, v \in Values :
    Find(replaceOrInsert(Heap, size, k, v).h, k) = [found |-> TRUE, value |-> v]

(***************************************************************************)
(* C2. Replace semantics: for a valid non-empty key k, if k is stored,     *)
(* ReplaceOrInsert(k, v) returns the previous entry with the old value and *)
(* Size() is unchanged; if k is not stored, it returns nil and Size()      *)
(* grows by exactly 1.                                                     *)
(***************************************************************************)
C2_ReplaceSemantics ==
  \A k \in ValidKeys, v \in Values :
    LET r == replaceOrInsert(Heap, size, k, v) IN
      IF Stored(Heap, k)
        THEN /\ r.ret # Nil
             /\ r.h.nodes[r.ret].value = Find(Heap, k).value
             /\ r.size = size
        ELSE /\ r.ret = Nil
             /\ r.size = size + 1

(***************************************************************************)
(* C3. Delete correctness: for every stored key k with value v, Delete(k)  *)
(* returns a non-nil entry whose value is v, Find(k) then reports          *)
(* not-found, Size() has decreased by exactly 1, and every other stored    *)
(* key is still found with the value it had.                               *)
(***************************************************************************)
C3_DeleteCorrect ==
  \A k \in KeyUniverse :
    Stored(Heap, k) =>
      LET r == delete(Heap, size, k) IN
        /\ ~r.panic
        /\ r.ret # Nil
        /\ r.h.nodes[r.ret].value = Find(Heap, k).value
        /\ ~Stored(r.h, k)
        /\ r.size = size - 1
        /\ \A k2 \in KeyUniverse \ {k} :
             Stored(Heap, k2) => Find(r.h, k2) = Find(Heap, k2)

\* a stored key with a stored extension, below a node that was replaced, and
\* a Delete whose pruning takes nodes out of the tree
C3_Witness ==
  /\ Replaced(Heap)
  /\ \E k \in KeyUniverse, k2 \in KeyUniverse :
       /\ k # k2 /\ IsPrefix(k, k2) /\ Stored(Heap, k) /\ Stored(Heap, k2)
       /\ delete(Heap, size, k).ret # Nil
       /\ Cardinality(TreeNodes(delete(Heap, size, k2).h))
            < Cardinality(TreeNodes(Heap))

(***************************************************************************)
(* C4. Delete of an absent key is a total no-op: for every key k that is   *)
(* not stored, Delete(k) ends without a panic, returns nil, and leaves     *)
(* Size(), the node structure and the result of every Find unchanged.      *)
(***************************************************************************)
C4_DeleteAbsentNoOp ==
  \A k \in KeyUniverse :
    ~Stored(Heap, k) =>
      LET r == delete(Heap, size, k) IN
        /\ ~r.panic
        /\ r.ret = Nil
        /\ r.size = size
        /\ Shape(r.h) = Shape(Heap)
        /\ \A q \in KeyUniverse : Find(r.h, q) = Find(Heap, q)

(***************************************************************************)
(* C5. Early termination: in PrefixSearch(prefix, visit), once visit has   *)
(* returned false it is not called again: a visitor that returns false at  *)
(* its stop-th call is called at most stop times.                          *)
(***************************************************************************)
C5_EarlyTermination ==
  \A p \in KeyUniverse, stop \in 1..MaxStop :
    Len(PrefixSearch(Heap, p, stop)) <= stop

C7_RejectedInsertNoChange ==
  \A k \in KeyUniverse \ ValidKeys, v \in Values :
    LET r == replaceOrInsert(Heap, size, k, v) IN
      /\ r.ret = Nil
      /\ r.size = size
      /\ Shape(r.h) = Shape(Heap)
      /\ Keys(r.h) = Keys(Heap)
      /\ \A q \in KeyUniverse :
           /\ Find(r.h, q) = Find(Heap, q)
           /\ HasKeysWithPrefix(r.h, q) = HasKeysWithPrefix(Heap, q)

(***************************************************************************)
(* C8. Invalid keys never match on reads: for a non-empty key or prefix    *)
(* that does not decode, Find reports not-found, Delete returns nil and    *)
(* removes nothing, HasKeysWithPrefix reports false and PrefixSearch calls *)
(* the visitor zero times.                                                 *)
(***************************************************************************)
C8_InvalidNeverMatches ==
  \A k \in KeyUniverse :
    ~Decodable(k) =>
      /\ ~Stored(Heap, k)
      /\ LET r == delete(Heap, size, k) IN
           ~r.panic /\ r.ret = Nil /\ r.size = size /\ Shape(r.h) = Shape(Heap)
      /\ ~HasKeysWithPrefix(Heap, k)
      /\ PrefixSearch(Heap, k, 0) = <<>>

(***************************************************************************)
(* C9. Pruning invariant: after any sequence of ReplaceOrInsert and Delete *)
(* calls with valid non-empty keys, no node of the tree but the root is    *)
(* both non-terminating and childless; when Size() is 0 the root has no    *)
(* children.                                                               *)
(***************************************************************************)
C9_PruningInvariant ==
  /\ \A n \in TreeNodes(Heap) \ {root} :
       Heap.nodes[n].term \/ DOMAIN Children(Heap, n) # {}
  /\ (size = 0 => DOMAIN Children(Heap, root) = {})

(***************************************************************************)
(* C10. Delete returns the removed entry in its state before the removal:  *)
(* for every stored key k, the entry Delete(k) returns reports             *)
(* Terminating() = true and the value stored under k, whether the node was *)
(* detached or only demoted.                                               *)
(***************************************************************************)
C10_ReturnedEntryPreRemoval ==
  \A k \in KeyUniverse :
    Stored(Heap, k) =>
      LET r == delete(Heap, size, k) IN
        /\ r.ret # Nil
        /\ r.h.nodes[r.ret].term
        /\ r.h.nodes[r.ret].value = Find(Heap, k).value

====
